---- MODULE Spec2Model ----
(***************************************************************************)
(* rtimelog: the log store (src/src/store.rs) and the activity aggregator  *)
(* (src/src/activity.rs).                                                  *)
(*                                                                         *)
(* Text is a sequence of one-character strings, so that parsing and        *)
(* formatting are computed character by character.  A NaiveDateTime is a   *)
(* record of its civil fields; a NaiveDate is the same record without the  *)
(* time of day.                                                            *)
(***************************************************************************)
EXTENDS Integers, Sequences, FiniteSets, TLC

VARIABLES
    raw,        \* contents of the timelog file / the text handed to parse
    entries,    \* Timelog.entries
    pc,         \* "new": not constructed, "ready": constructed, "panic": aborted
    clockOk,    \* history: no add so far read a clock earlier than the last stop
    view,       \* outcome of the last range query (a borrowed slice or a panic)
    report,     \* outcome of the last Activities::new_from_entries
    history,    \* outcome of the last Timelog::get_history
    ui          \* main: time_mode, do_show and the command read last

vars == <<raw, entries, pc, clockOk, view, report, history, ui>>

\* Option<T>: None is the empty tuple, Some(x) the one-element tuple
None == <<>>

Some(x) == <<x>>

unwrap(o) == o[1]

\* ---------------------------------------------------------------------------
\* Bounds of the model
\* ---------------------------------------------------------------------------
MaxLines == 3
MaxEntries == 4
MaxStore == 3
MaxSlice == 4

\* ---------------------------------------------------------------------------
\* Characters and strings
\* ---------------------------------------------------------------------------
DigitChars == <<"0", "1", "2", "3", "4", "5", "6", "7", "8", "9">>

IsDigit(c) == \E i \in 1..10 : DigitChars[i] = c

DigitVal(c) == (CHOOSE i \in 1..10 : DigitChars[i] = c) - 1

IsWhite(c) == c \in {" ", "\t", "\r", "\n"}

RECURSIVE trim_start(_)
trim_start(s) ==
    IF s # <<>> /\ IsWhite(Head(s)) THEN trim_start(Tail(s)) ELSE s

RECURSIVE trim_end(_)
trim_end(s) ==
    IF s # <<>> /\ IsWhite(s[Len(s)]) THEN trim_end(SubSeq(s, 1, Len(s) - 1)) ELSE s

trim(s) == trim_end(trim_start(s))

starts_with(s, p) == Len(s) >= Len(p) /\ SubSeq(s, 1, Len(p)) = p

\* str::split_once: the parts before and after the first occurrence of pat
split_once(s, pat) ==
    LET hits == {i \in 1..Len(s) : starts_with(SubSeq(s, i, Len(s)), pat)}
    IN  IF hits = {} THEN None
        ELSE LET i == CHOOSE j \in hits : \A k \in hits : j <= k
             IN  Some(<<SubSeq(s, 1, i - 1), SubSeq(s, i + Len(pat), Len(s))>>)

\* str::lines: split at "\n", a final empty piece is no line, a trailing "\r"
\* of a line is dropped
RECURSIVE lines(_)
lines(s) ==
    IF s = <<>> THEN <<>>
    ELSE LET nl == {i \in 1..Len(s) : s[i] = "\n"}
         IN  IF nl = {} THEN <<s>>
             ELSE LET i == CHOOSE j \in nl : \A k \in nl : j <= k
                      l == SubSeq(s, 1, i - 1)
                      line == IF l # <<>> /\ l[Len(l)] = "\r"
                              THEN SubSeq(l, 1, Len(l) - 1) ELSE l
                  IN  <<line>> \o lines(SubSeq(s, i + 1, Len(s)))

\* ---------------------------------------------------------------------------
\* chrono: calendar arithmetic
\* ---------------------------------------------------------------------------
IsLeap(y) == (y % 4 = 0 /\ y % 100 # 0) \/ y % 400 = 0

DaysInMonth(y, m) ==
    IF m = 2 THEN (IF IsLeap(y) THEN 29 ELSE 28)
    ELSE IF m \in {4, 6, 9, 11} THEN 30 ELSE 31

\* days of the year before the first of month m
DaysBeforeMonth(y, m) ==
    <<0, 31, 59, 90, 120, 151, 181, 212, 243, 273, 304, 334>>[m]
        + (IF m > 2 /\ IsLeap(y) THEN 1 ELSE 0)

\* NaiveDate::ordinal: day of the year, 1-based
Ordinal(d) == DaysBeforeMonth(d.year, d.month) + d.day

\* days since 0000-12-31 (0001-01-01, a Monday, is day 1)
DaysBeforeYear(y) ==
    365 * (y - 1) + ((y - 1) \div 4) - ((y - 1) \div 100) + ((y - 1) \div 400)

DayNum(d) == DaysBeforeYear(d.year) + Ordinal(d)

\* Weekday::num_days_from_monday
num_days_from_monday(d) == (DayNum(d) - 1) % 7

MkDate(y, m, d) == [year |-> y, month |-> m, day |-> d]

\* NaiveDate::from_ymd_opt
from_ymd_opt(y, m, d) ==
    IF m \in 1..12 /\ d >= 1 /\ d <= DaysInMonth(y, m) THEN Some(MkDate(y, m, d)) ELSE None

\* NaiveDate::from_yo_opt, for ordinals of the year itself
from_yo(y, o) ==
    LET m == CHOOSE k \in 1..12 :
                 DaysBeforeMonth(y, k) < o /\ o <= DaysBeforeMonth(y, k) + DaysInMonth(y, k)
    IN  MkDate(y, m, o - DaysBeforeMonth(y, m))

\* the date with a given day number
DateOfDayNum(n) ==
    LET y == CHOOSE k \in (n \div 366)..((n \div 365) + 1) :
                 DaysBeforeYear(k) < n /\ n <= DaysBeforeYear(k + 1)
    IN  from_yo(y, n - DaysBeforeYear(y))

\* YearFlags::nisoweeks: 53 when 1 January is a Thursday, or a Wednesday of a
\* leap year
nisoweeks(y) ==
    LET j == num_days_from_monday(MkDate(y, 1, 1))
    IN  IF j = 3 \/ (IsLeap(y) /\ j = 2) THEN 53 ELSE 52

\* Datelike::iso_week: the ISO year and week number of a date
iso_week(d) ==
    LET rawweek == (Ordinal(d) - (num_days_from_monday(d) + 1) + 10) \div 7
    IN  IF rawweek < 1 THEN [year |-> d.year - 1, week |-> nisoweeks(d.year - 1)]
        ELSE IF rawweek > nisoweeks(d.year) THEN [year |-> d.year + 1, week |-> 1]
        ELSE [year |-> d.year, week |-> rawweek]

\* NaiveDate::from_isoywd_opt: None when the year has no such week
from_isoywd_opt(y, week, wd) ==
    IF week < 1 \/ week > nisoweeks(y) THEN None
    ELSE LET jan4 == MkDate(y, 1, 4)
             week1 == DayNum(jan4) - num_days_from_monday(jan4)
         IN  Some(DateOfDayNum(week1 + (week - 1) * 7 + wd))

Mon == 0

\* NaiveDate::and_hms_opt
and_hms_opt(d, h, mi, s) ==
    IF h \in 0..23 /\ mi \in 0..59 /\ s \in 0..59
    THEN Some([year |-> d.year, month |-> d.month, day |-> d.day,
               hour |-> h, minute |-> mi, second |-> s])
    ELSE None

\* NaiveDateTime::date
date(dt) == MkDate(dt.year, dt.month, dt.day)

\* NaiveDateTime::time, as seconds since midnight
SecsOfDay(dt) == dt.hour * 3600 + dt.minute * 60 + dt.second

\* the order of NaiveDateTime: by date, then by time
lt(a, b) ==
    \/ DayNum(date(a)) < DayNum(date(b))
    \/ DayNum(date(a)) = DayNum(date(b)) /\ SecsOfDay(a) < SecsOfDay(b)

le(a, b) == ~lt(b, a)

\* NaiveDateTime::signed_duration_since, in seconds
signed_duration_since(a, b) ==
    (DayNum(date(a)) - DayNum(date(b))) * 86400 + (SecsOfDay(a) - SecsOfDay(b))

\* ---------------------------------------------------------------------------
\* chrono: strftime formatting and parsing
\* ---------------------------------------------------------------------------
\* "%Y-%m-%d %H:%M"
TIME_FMT ==
    << [k |-> "num", f |-> "year", w |-> 4], [k |-> "lit", c |-> "-"],
       [k |-> "num", f |-> "month", w |-> 2], [k |-> "lit", c |-> "-"],
       [k |-> "num", f |-> "day", w |-> 2], [k |-> "space", c |-> " "],
       [k |-> "num", f |-> "hour", w |-> 2], [k |-> "lit", c |-> ":"],
       [k |-> "num", f |-> "minute", w |-> 2] >>

\* a number, zero padded to w digits
RECURSIVE Pad(_, _)
Pad(n, w) ==
    IF w <= 1 /\ n < 10 THEN <<DigitChars[n + 1]>>
    ELSE Pad(n \div 10, w - 1) \o <<DigitChars[(n % 10) + 1]>>

\* NaiveDateTime::format
RECURSIVE format(_, _)
format(dt, fmt) ==
    IF fmt = <<>> THEN <<>>
    ELSE LET it == Head(fmt)
         IN  (IF it.k = "num" THEN Pad(dt[it.f], it.w) ELSE <<it.c>>)
             \o format(dt, Tail(fmt))

\* format::scan::number: the length of the leading run of at most max digits
RECURSIVE DigitRun(_, _)
DigitRun(s, max) ==
    IF max = 0 \/ s = <<>> \/ ~IsDigit(Head(s)) THEN 0
    ELSE 1 + DigitRun(Tail(s), max - 1)

RECURSIVE NumVal(_)
NumVal(s) ==
    IF s = <<>> THEN 0 ELSE NumVal(SubSeq(s, 1, Len(s) - 1)) * 10 + DigitVal(s[Len(s)])

\* format::parse: consume the items of fmt from s; numeric items skip leading
\* white space and take 1..w digits, a space item skips white space, a literal
\* must match; input left over is an error (a sign before the year is not
\* modelled: no text of the model has one)
RECURSIVE parse_items(_, _, _)
parse_items(s, fmt, got) ==
    IF fmt = <<>> THEN (IF s = <<>> THEN Some(got) ELSE None)
    ELSE LET it == Head(fmt)
         IN  IF it.k = "num"
             THEN LET t == trim_start(s)
                      n == DigitRun(t, it.w)
                  IN  IF n = 0 THEN None
                      ELSE parse_items(SubSeq(t, n + 1, Len(t)), Tail(fmt),
                                       [got EXCEPT ![it.f] = NumVal(SubSeq(t, 1, n))])
             ELSE IF it.k = "space"
             THEN parse_items(trim_start(s), Tail(fmt), got)
             ELSE IF s # <<>> /\ Head(s) = it.c
                  THEN parse_items(Tail(s), Tail(fmt), got)
                  ELSE None

\* NaiveDateTime::parse_from_str: the fields must name a date and a time
parse_from_str(s, fmt) ==
    LET got == parse_items(s, fmt, [year |-> 0, month |-> 0, day |-> 0,
                                    hour |-> 0, minute |-> 0])
    IN  IF got = None THEN None
        ELSE LET g == unwrap(got)
                 d == from_ymd_opt(g.year, g.month, g.day)
             IN  IF d = None THEN None ELSE and_hms_opt(unwrap(d), g.hour, g.minute, 0)

\* ---------------------------------------------------------------------------
\* store.rs: Entry and Timelog
\* ---------------------------------------------------------------------------
Entry(stop, task) == [stop |-> stop, task |-> task]

\* impl Display for Entry: "{stop}: {task}"
display(e) == format(e.stop, TIME_FMT) \o <<":", " ">> \o e.task

\* Timelog::parse_line
parse_line(l) ==
    LET line == trim(l)
    IN  IF line = <<>> THEN None
        ELSE LET sp == split_once(line, <<":", " ">>)
             IN  IF sp = None THEN None
                 ELSE LET dt == parse_from_str(unwrap(sp)[1], TIME_FMT)
                      IN  IF dt = None THEN None
                          ELSE Some(Entry(unwrap(dt), unwrap(sp)[2]))

\* parse without its order test
goes_back_never(stop, prev) == FALSE

\* parse that also rejects a stop equal to the previous one
goes_back_or_equal(stop, prev) == prev # None /\ le(stop, unwrap(prev))

\* the test of Timelog::parse that makes it panic: "goes back in time"
goes_back(stop, prev) == prev # None /\ lt(stop, unwrap(prev))

\* a loop that ends at the first line parse_line does not accept
RECURSIVE parse_loop_stop_at_skip(_, _, _)
parse_loop_stop_at_skip(ls, es, prev) ==
    IF ls = <<>> THEN [panic |-> FALSE, entries |-> es]
    ELSE LET e == parse_line(Head(ls))
         IN  IF e # None
             THEN IF goes_back(unwrap(e).stop, prev)
                  THEN [panic |-> TRUE, entries |-> <<>>]
                  ELSE parse_loop_stop_at_skip(Tail(ls), Append(es, unwrap(e)),
                                               Some(unwrap(e).stop))
             ELSE [panic |-> FALSE, entries |-> es]

\* the loop of Timelog::parse over the lines ls, with the entries es accepted
\* so far and the stop prev of the last of them
RECURSIVE parse_loop(_, _, _)
parse_loop(ls, es, prev) ==
    IF ls = <<>> THEN [panic |-> FALSE, entries |-> es]
    ELSE LET e == parse_line(Head(ls))
         IN  IF e # None
             THEN IF goes_back(unwrap(e).stop, prev)
                  THEN [panic |-> TRUE, entries |-> <<>>]
                  ELSE parse_loop(Tail(ls), Append(es, unwrap(e)), Some(unwrap(e).stop))
             ELSE parse_loop(Tail(ls), es, prev)

\* Timelog::parse
parse(text) == parse_loop(lines(text), <<>>, None)

\* a blank line also before the first entry
day_break_before_first(prev, e) ==
    IF prev = None \/ unwrap(prev) # date(e.stop) THEN <<"\n">> ELSE <<>>

\* the blank line of Timelog::format_store between two days
day_break(prev, e) ==
    IF prev # None /\ unwrap(prev) # date(e.stop) THEN <<"\n">> ELSE <<>>

\* write! in place of writeln!: no end of line after the entry
write_no_newline(e) == display(e)

\* writeln!(output, "{entry}")
writeln(e) == display(e) \o <<"\n">>

RECURSIVE format_loop(_, _)
format_loop(es, prev) ==
    IF es = <<>> THEN <<>>
    ELSE day_break(prev, Head(es)) \o writeln(Head(es))
         \o format_loop(Tail(es), Some(date(Head(es).stop)))

\* Timelog::format_store
format_store(es) == format_loop(es, None)

\* Iterator::position, 0-based, with unwrap_or(len)
position_or_len(es, hits) ==
    IF hits = {} THEN Len(es) ELSE CHOOSE i \in hits : \A j \in hits : i <= j

\* first of Timelog::get_time_range
first_index(es, begin) ==
    position_or_len(es, {i \in 0..(Len(es) - 1) : le(begin, es[i + 1].stop)})

\* last that stops at the first entry with stop >= end
last_index_at_end(es, end) ==
    position_or_len(es, {i \in 0..(Len(es) - 1) : le(end, es[i + 1].stop)})

\* last of Timelog::get_time_range
last_index(es, end) ==
    position_or_len(es, {i \in 0..(Len(es) - 1) : lt(end, es[i + 1].stop)})

\* the outcome of a range query that aborted before slicing
Aborted(b, e) ==
    [panic |-> TRUE, begin |-> b, end |-> e, first |-> 0, last |-> 0, slice |-> <<>>]

\* Timelog::get_time_range: &self.entries[first..last] panics when first > last
get_time_range(es, begin, end) ==
    LET first == first_index(es, begin)
        last == last_index(es, end)
    IN  IF first > last THEN Aborted(Some(begin), Some(end))
        ELSE [panic |-> FALSE, begin |-> Some(begin), end |-> Some(end),
              first |-> first, last |-> last, slice |-> SubSeq(es, first + 1, last)]

\* Timelog::get_day
get_day(es, day) ==
    get_time_range(es, unwrap(and_hms_opt(day, 0, 0, 0)), unwrap(and_hms_opt(day, 23, 59, 59)))

\* begin of Timelog::get_week, before the unwrap
week_begin(day) == from_isoywd_opt(day.year, iso_week(day).week, Mon)

\* end of Timelog::get_week, before the unwrap
week_end(day) == from_isoywd_opt(day.year, iso_week(day).week + 1, Mon)

\* Timelog::get_week: each unwrap panics on None
get_week(es, day) ==
    LET b == week_begin(day)
        e == week_end(day)
    IN  IF b = None THEN Aborted(None, None)
        ELSE IF e = None THEN Aborted(and_hms_opt(unwrap(b), 0, 0, 0), None)
        ELSE get_time_range(es, unwrap(and_hms_opt(unwrap(b), 0, 0, 0)),
                                unwrap(and_hms_opt(unwrap(e), 0, 0, 0)))

\* Vec::dedup in place of the seen set: only repeats in a row are dropped
RECURSIVE get_history_dedup(_)
get_history_dedup(es) ==
    IF es = <<>> THEN <<>>
    ELSE IF Len(es) > 1 /\ es[1].task = es[2].task THEN get_history_dedup(Tail(es))
    ELSE <<es[1].task>> \o get_history_dedup(Tail(es))

\* the filter of Timelog::get_history over the tasks of es, with the set seen
RECURSIVE history_loop(_, _)
history_loop(es, seen) ==
    IF es = <<>> THEN <<>>
    ELSE LET t == Head(es).task
         IN  IF t \in seen THEN history_loop(Tail(es), seen)
             ELSE <<t>> \o history_loop(Tail(es), seen \cup {t})

\* Timelog::get_history
get_history(es) == history_loop(es, {})

\* Timelog::add: now is the reading of Local::now(), to the second
add(es, task, now) ==
    LET naivenow == unwrap(and_hms_opt(unwrap(from_ymd_opt(now.year, now.month, now.day)),
                                       now.hour, now.minute, now.second))
    IN  Append(es, Entry(naivenow, task))

\* ---------------------------------------------------------------------------
\* activity.rs: Activities
\* ---------------------------------------------------------------------------
\* the test of new_from_entries for "same day as the previous entry":
\* prev_stop.unwrap().day() != entry.stop.day() skips the entry
same_day(prev_stop, stop) == prev_stop.day = stop.day

\* a marker of three stars
is_slack_three_stars(task) == starts_with(task, <<"*", "*", "*">>)

\* entry.task.starts_with("**")
is_slack(task) == starts_with(task, <<"*", "*">>)

\* a breakdown that gets a new Activity for every counted entry
accumulate_always_push(activities, task, duration) ==
    Append(activities, [name |-> task, duration |-> duration])

\* the match on activities.iter_mut().find(|a| a.name == entry.task)
accumulate(activities, task, duration) ==
    LET found == {k \in 1..Len(activities) : activities[k].name = task}
    IN  IF found # {}
        THEN LET k == CHOOSE x \in found : \A y \in found : x <= y
             IN  [activities EXCEPT ![k].duration = @ + duration]
        ELSE Append(activities, [name |-> task, duration |-> duration])

\* an iteration that books every duration as work
count_entry_all_work(acc, i, entry, duration) ==
    [activities |-> accumulate(acc.activities, entry.task, duration),
     total_work |-> acc.total_work + duration,
     total_slack |-> acc.total_slack,
     counted |-> Append(acc.counted, [index |-> i, duration |-> duration])]

\* one iteration of the loop of new_from_entries that counts entry i;
\* counted records the entries that got a duration and that duration
count_entry(acc, i, entry, duration) ==
    [activities |-> accumulate(acc.activities, entry.task, duration),
     total_work |-> IF is_slack(entry.task) THEN acc.total_work
                    ELSE acc.total_work + duration,
     total_slack |-> IF is_slack(entry.task) THEN acc.total_slack + duration
                     ELSE acc.total_slack,
     counted |-> Append(acc.counted, [index |-> i, duration |-> duration])]

RECURSIVE activities_loop(_, _, _, _)
activities_loop(es, i, acc, prev_stop) ==
    IF i > Len(es) THEN acc
    ELSE LET entry == es[i]
         IN  IF prev_stop = None
             THEN activities_loop(es, i + 1, acc, Some(entry.stop))
             ELSE IF ~same_day(unwrap(prev_stop), entry.stop)
             THEN activities_loop(es, i + 1, acc, Some(entry.stop))
             ELSE activities_loop(es, i + 1,
                      count_entry(acc, i, entry,
                                  signed_duration_since(entry.stop, unwrap(prev_stop))),
                      Some(entry.stop))

\* Activities::new_from_entries; durations are in seconds
new_from_entries(es) ==
    activities_loop(es, 1, [activities |-> <<>>, total_work |-> 0, total_slack |-> 0,
                            counted |-> <<>>], None)

\* ---------------------------------------------------------------------------
\* Inputs of the model
\* ---------------------------------------------------------------------------
\* "2022-06-09 06:02: a"
Line1 ==
    <<"2", "0", "2", "2", "-", "0", "6", "-", "0", "9", " ", "0", "6", ":",
      "0", "2", ":", " ", "a">>

\* "2022-06-09 06:27: **t"
Line2 ==
    <<"2", "0", "2", "2", "-", "0", "6", "-", "0", "9", " ", "0", "6", ":",
      "2", "7", ":", " ", "*", "*", "t">>

\* "2022-06-10 07:00: a: b", a task that holds the separator
Line3 ==
    <<"2", "0", "2", "2", "-", "0", "6", "-", "1", "0", " ", "0", "7", ":",
      "0", "0", ":", " ", "a", ":", " ", "b">>

\* a blank line
LineBlank ==
    <<>>

\* "2022-06-09 06:02 a": no ": " separator
LineNoSep ==
    <<"2", "0", "2", "2", "-", "0", "6", "-", "0", "9", " ", "0", "6", ":",
      "0", "2", " ", "a">>

\* "2022-13-32 13:59: a": no such date
LineBadDate ==
    <<"2", "0", "2", "2", "-", "1", "3", "-", "3", "2", " ", "1", "3", ":",
      "5", "9", ":", " ", "a">>

\* " 2022-6-9 6:27:  b ": blanks around, no zero padding, the time of Line2
LineLoose ==
    <<" ", "2", "0", "2", "2", "-", "6", "-", "9", " ", "6", ":", "2", "7",
      ":", " ", " ", "b", " ">>

\* the lines the parsed texts are made of
ParseLines == {Line1, Line2, Line3, LineBlank, LineNoSep, LineBadDate, LineLoose}

\* the lines the timelog file of a session is made of
LogLines == {Line1, Line2, Line3, LineBlank}

\* all sequences over S of length at most n
SeqUpTo(S, n) == UNION {[1..k -> S] : k \in 0..n}

\* the text of the lines ls, each but the last ended by "\n", the last one
\* ended by "\n" when nl holds
RECURSIVE Join(_, _)
Join(ls, nl) ==
    IF ls = <<>> THEN <<>>
    ELSE Head(ls) \o (IF Len(ls) > 1 \/ nl THEN <<"\n">> ELSE <<>>) \o Join(Tail(ls), nl)

DT(y, mo, d, h, mi, s) ==
    [year |-> y, month |-> mo, day |-> d, hour |-> h, minute |-> mi, second |-> s]

\* the readings of Local::now() that add sees
ClockReadings ==
    {DT(2022, 6, 9, 6, 27, 30), DT(2022, 6, 10, 7, 0, 0), DT(2022, 6, 10, 23, 59, 59)}

\* the task texts handed to add
AddTasks == {<<"c">>}

\* the dates asked of get_day
DayDates == {MkDate(2022, 6, 8), MkDate(2022, 6, 9), MkDate(2022, 6, 10)}

\* the stops of the stores the range queries run on: Sunday 23:59, Monday
\* 00:00, Thursday, Sunday 23:59:59 and the Monday 00:00 after it
RangeStops ==
    {DT(2022, 6, 5, 23, 59, 0), DT(2022, 6, 6, 0, 0, 0), DT(2022, 6, 9, 6, 2, 0),
     DT(2022, 6, 12, 23, 59, 59), DT(2022, 6, 13, 0, 0, 0)}

RangeTasks == {<<"a">>, <<"b">>}

\* begin and end handed to get_time_range
RangeBounds ==
    {DT(2022, 6, 6, 0, 0, 0), DT(2022, 6, 9, 6, 2, 0), DT(2022, 6, 12, 23, 59, 59)}

\* the dates asked of get_day on those stores
RangeDays == {MkDate(2022, 6, 5), MkDate(2022, 6, 9), MkDate(2022, 6, 12)}

\* the dates asked of get_week: mid-year, and around the turn of a year
WeekDates ==
    {MkDate(2022, 6, 9), MkDate(2022, 6, 5), MkDate(2022, 12, 28),
     MkDate(2021, 1, 1), MkDate(2024, 12, 30), MkDate(2020, 12, 30)}

\* the stops of the slices handed to new_from_entries: two on one day, one on
\* the next day, one on the same day of the next month
SliceStops ==
    {DT(2022, 6, 10, 7, 0, 0), DT(2022, 6, 10, 8, 45, 0), DT(2022, 6, 11, 6, 0, 0),
     DT(2022, 7, 10, 8, 0, 0)}

SliceTasks == {<<"a">>, <<"b">>, <<"*", "*", "t">>}

\* entries is sorted non-decreasing by stop
Sorted(es) == \A i \in 1..(Len(es) - 1) : le(es[i].stop, es[i + 1].stop)

\* the sorted stores of at most n entries over the given stops and tasks
RECURSIVE SortedStores(_, _, _)
SortedStores(stops, tasks, n) ==
    IF n = 0 THEN {<<>>}
    ELSE LET shorter == SortedStores(stops, tasks, n - 1)
         IN  shorter \cup
             UNION {{Append(es, Entry(t, k)) :
                        t \in {u \in stops : \A i \in 1..(n - 1) : le(es[i].stop, u)},
                        k \in tasks} :
                    es \in {x \in shorter : Len(x) = n - 1}}

\* ---------------------------------------------------------------------------
\* State machine
\* ---------------------------------------------------------------------------
NoResult ==
    [panic |-> FALSE, begin |-> None, end |-> None, first |-> 0, last |-> 0,
     slice |-> <<>>]

NoView == [op |-> "none", day |-> None, res |-> NoResult]

View(op, day, res) == [op |-> op, day |-> day, res |-> res]

\* main before the first command: daily mode, the report is to be shown
NoCommand == [time_mode |-> "Day", do_show |-> TRUE, input |-> None, cmd |-> None]

\* a session starts on a timelog file
Init ==
    /\ raw \in {Join(ls, TRUE) : ls \in SeqUpTo(LogLines, MaxLines)}
    /\ entries = <<>>
    /\ pc = "new"
    /\ clockOk = TRUE
    /\ view = NoView
    /\ report = None
    /\ history = <<>>
    /\ ui = NoCommand

\* Timelog::new_from_file / new_from_string: parse the text, or abort
new_from_file ==
    /\ pc = "new"
    /\ LET r == parse(raw)
       IN  /\ pc' = IF r.panic THEN "panic" ELSE "ready"
           /\ entries' = r.entries
    /\ UNCHANGED <<raw, clockOk, view, report, history, ui>>

\* Command::Add in main, add_entry in cmd: timelog.add(task); timelog.save()
AddEntry(task, now) ==
    /\ pc = "ready"
    /\ Len(entries) < MaxEntries
    /\ entries' = add(entries, task, now)
    /\ raw' = format_store(entries')
    /\ clockOk' = (clockOk /\ (entries = <<>> \/ le(entries[Len(entries)].stop, now)))
    /\ view' = NoView
    /\ report' = None
    /\ history' = <<>>
    /\ UNCHANGED <<pc, ui>>

\* Timelog::save
Save ==
    /\ pc = "ready"
    /\ raw' = format_store(entries)
    /\ UNCHANGED <<entries, pc, clockOk, view, report, history, ui>>

\* Command::Quit and the next start of the program
Restart ==
    /\ pc = "ready"
    /\ pc' = "new"
    /\ entries' = <<>>
    /\ clockOk' = TRUE
    /\ view' = NoView
    /\ report' = None
    /\ history' = <<>>
    /\ ui' = NoCommand
    /\ UNCHANGED raw

\* a range query: the slice it returns, or the abort of the process
Query(op, day, res) ==
    /\ pc = "ready"
    /\ view' = View(op, day, res)
    /\ pc' = IF res.panic THEN "panic" ELSE pc
    /\ report' = None
    /\ history' = <<>>
    /\ UNCHANGED <<raw, entries, clockOk, ui>>

GetTimeRange(begin, end) == Query("get_time_range", None, get_time_range(entries, begin, end))

GetDay(day) == Query("get_day", Some(day), get_day(entries, day))

GetWeek(day) == Query("get_week", Some(day), get_week(entries, day))

\* Activities::new_from_entries and Timelog::get_history on the slice of a
\* range query, as show in main runs them
Report(begin, end) ==
    /\ pc = "ready"
    /\ LET res == get_time_range(entries, begin, end)
       IN  /\ ~res.panic
           /\ view' = View("get_time_range", None, res)
           /\ report' = Some(new_from_entries(res.slice))
           /\ history' = get_history(res.slice)
    /\ UNCHANGED <<raw, entries, pc, clockOk, ui>>

\* the session of the program: load, add and save, restart, look at a day
Next ==
    \/ new_from_file
    \/ \E task \in AddTasks, now \in ClockReadings : AddEntry(task, now)
    \/ Restart
    \/ \E day \in DayDates : GetDay(day)

Spec == Init /\ [][Next]_vars

\* parsing and formatting: any text of the lines, with or without a final "\n"
InitParse ==
    /\ raw \in {Join(ls, nl) : ls \in SeqUpTo(ParseLines, MaxLines), nl \in BOOLEAN}
    /\ entries = <<>>
    /\ pc = "new"
    /\ clockOk = TRUE
    /\ view = NoView
    /\ report = None
    /\ history = <<>>
    /\ ui = NoCommand

NextParse == new_from_file \/ Save \/ Restart

SpecParse == InitParse /\ [][NextParse]_vars

\* range queries on a sorted store
InitRange ==
    /\ entries \in SortedStores(RangeStops, RangeTasks, MaxStore)
    /\ raw = format_store(entries)
    /\ pc = "ready"
    /\ clockOk = TRUE
    /\ view = NoView
    /\ report = None
    /\ history = <<>>
    /\ ui = NoCommand

NextRange ==
    \/ \E begin \in RangeBounds, end \in RangeBounds : GetTimeRange(begin, end)
    \/ \E day \in RangeDays : GetDay(day)
    \/ \E day \in WeekDates : GetWeek(day)

SpecRange == InitRange /\ [][NextRange]_vars

\* the aggregation of a chronologically ordered slice
InitAgg ==
    /\ entries \in SortedStores(SliceStops, SliceTasks, MaxSlice)
    /\ raw = format_store(entries)
    /\ pc = "ready"
    /\ clockOk = TRUE
    /\ view = NoView
    /\ report = None
    /\ history = <<>>
    /\ ui = NoCommand

SliceRanges ==
    {<<DT(2022, 6, 10, 0, 0, 0), DT(2022, 7, 10, 23, 59, 59)>>,
     <<DT(2022, 6, 10, 8, 45, 0), DT(2022, 6, 11, 23, 59, 59)>>}

NextAgg == \E r \in SliceRanges : Report(r[1], r[2])

SpecAgg == InitAgg /\ [][NextAgg]_vars

\* ---------------------------------------------------------------------------
\* Interactive loop
\* ---------------------------------------------------------------------------
\* enum Command: the variant, the mode of SwitchMode, the text of Add and Error
Command(kind, mode, text) == [kind |-> kind, mode |-> mode, text |-> text]

\* "Unknown command: "
UnknownCommand ==
    <<"U", "n", "k", "n", "o", "w", "n", " ", "c", "o", "m", "m", "a", "n", "d",
      ":", " ">>

\* an unrecognised ":" input taken for a task
Command_parse_colon_as_task(input) ==
    IF input = <<>> THEN Command("Nothing", "-", <<>>)
    ELSE IF input = <<":", "q">> THEN Command("Quit", "-", <<>>)
    ELSE IF input = <<":", "h">> THEN Command("Help", "-", <<>>)
    ELSE IF input = <<":", "e">> THEN Command("Edit", "-", <<>>)
    ELSE IF input = <<":", "w">> THEN Command("SwitchMode", "Week", <<>>)
    ELSE IF input = <<":", "d">> THEN Command("SwitchMode", "Day", <<>>)
    ELSE Command("Add", "-", input)

\* Command::parse
Command_parse(input) ==
    IF input = <<>> THEN Command("Nothing", "-", <<>>)
    ELSE IF input = <<":", "q">> THEN Command("Quit", "-", <<>>)
    ELSE IF input = <<":", "h">> THEN Command("Help", "-", <<>>)
    ELSE IF input = <<":", "e">> THEN Command("Edit", "-", <<>>)
    ELSE IF input = <<":", "w">> THEN Command("SwitchMode", "Week", <<>>)
    ELSE IF input = <<":", "d">> THEN Command("SwitchMode", "Day", <<>>)
    ELSE IF starts_with(input, <<":">>) THEN Command("Error", "-", UnknownCommand \o input)
    ELSE Command("Add", "-", input)

\* what rl.readline returns: a line, ^C, ^D or another error
Readline(kind, line) == [kind |-> kind, line |-> line]

\* get_input: the line without its trailing whitespace, "" for ^C, ":q" for
\* ^D; None stands for the Err that main returns with
get_input(r) ==
    IF r.kind = "Ok" THEN Some(trim_end(r.line))
    ELSE IF r.kind = "Interrupted" THEN Some(<<>>)
    ELSE IF r.kind = "Eof" THEN Some(<<":", "q">>)
    ELSE None

\* the lines typed at the prompt
TypedLines ==
    {<<>>, <<":", "q">>, <<":", "h">>, <<":", "e">>, <<":", "w">>, <<":", "d">>,
     <<":", "x">>, <<":", "e", "2">>, <<"c">>, <<"c", " ">>}

Readlines ==
    {Readline("Ok", l) : l \in TypedLines}
        \cup {Readline("Interrupted", <<>>), Readline("Eof", <<>>), Readline("Err", <<>>)}

\* what the editor leaves in the file, apart from the text it found: a log
\* in order, and one whose second line goes back in time
EditedTexts == {Join(<<Line1, LineBlank, Line3>>, TRUE), Join(<<Line3, Line1>>, TRUE)}

\* one turn of the loop of main after show and show_prompt: read a line,
\* parse it to a Command and carry it out. show and show_prompt only print.
\* Edit reloads the file as the editor left it; Add reads the clock.
MainLoop(r) ==
    /\ pc = "ready"
    /\ IF get_input(r) = None
       THEN /\ pc' = "exited"
            /\ UNCHANGED <<raw, entries, clockOk, view, report, history, ui>>
       ELSE LET input == unwrap(get_input(r))
                cmd == Command_parse(input)
            IN  /\ ui' = [time_mode |-> IF cmd.kind = "SwitchMode" THEN cmd.mode
                                        ELSE ui.time_mode,
                          do_show |-> cmd.kind \notin {"Help", "Error"},
                          input |-> Some(input),
                          cmd |-> Some(cmd)]
                /\ CASE cmd.kind = "Quit" ->
                            /\ pc' = "exited"
                            /\ UNCHANGED <<raw, entries, clockOk, view, report, history>>
                     [] cmd.kind = "Edit" ->
                            \E text \in {raw} \cup EditedTexts :
                                /\ raw' = text
                                /\ LET p == parse(text)
                                   IN  /\ pc' = IF p.panic THEN "panic" ELSE "ready"
                                       /\ entries' = p.entries
                                /\ clockOk' = TRUE
                                /\ view' = NoView
                                /\ report' = None
                                /\ history' = <<>>
                     [] cmd.kind = "Add" ->
                            \E now \in ClockReadings :
                                /\ Len(entries) < MaxEntries
                                /\ entries' = add(entries, cmd.text, now)
                                /\ raw' = format_store(entries')
                                /\ clockOk' = (clockOk /\ (entries = <<>>
                                                  \/ le(entries[Len(entries)].stop, now)))
                                /\ view' = NoView
                                /\ report' = None
                                /\ history' = <<>>
                                /\ UNCHANGED pc
                     [] OTHER ->
                            UNCHANGED <<raw, entries, pc, clockOk, view, report, history>>

\* the timelog files the interactive program starts on
CmdLogs == {<<>>, <<Line1, LineBlank, Line2>>, <<Line1, Line3>>}

InitCmd ==
    /\ raw \in {Join(ls, TRUE) : ls \in CmdLogs}
    /\ entries = <<>>
    /\ pc = "new"
    /\ clockOk = TRUE
    /\ view = NoView
    /\ report = None
    /\ history = <<>>
    /\ ui = NoCommand

NextCmd ==
    \/ new_from_file
    \/ \E r \in Readlines : MainLoop(r)

SpecCmd == InitCmd /\ [][NextCmd]_vars

\* ---------------------------------------------------------------------------
\* Properties
\* ---------------------------------------------------------------------------
\* the entries of es that satisfy Keep, in the order of es
Filter(es, Keep(_)) == SelectSeq(es, Keep)

\* the entries parse_line accepts among the lines ls, in order
RECURSIVE AcceptedOf(_)
AcceptedOf(ls) ==
    IF ls = <<>> THEN <<>>
    ELSE (IF parse_line(Head(ls)) = None THEN <<>> ELSE parse_line(Head(ls)))
         \o AcceptedOf(Tail(ls))

\* C1: after Timelog::parse and any number of add under a clock that never
\* reads earlier than the last stored stop, entries is sorted non-decreasing
\* by stop.
C1_SortedUnderSteadyClock == (pc = "ready" /\ clockOk) => Sorted(entries)

\* a parsed store of two entries that add extended at a later clock reading
C1_Witness ==
    /\ pc = "ready" /\ clockOk
    /\ Len(entries) >= 3
    /\ entries[1].stop.second = 0
    /\ entries[Len(entries)].stop.second # 0
    /\ entries[Len(entries)].task \in AddTasks

\* C2: parse aborts exactly when some accepted line has a stop strictly
\* earlier than the stop of the accepted line before it; equal stops pass,
\* and skipped lines in between take no part.
C2_PanicIffStrictlyEarlier ==
    pc # "new" =>
        LET acc == AcceptedOf(lines(raw))
        IN  (pc = "panic") <=>
                \E i \in 1..(Len(acc) - 1) : lt(acc[i + 1].stop, acc[i].stop)

\* parse accepted two lines with equal stops that had a skipped line between
\* them
C2_Witness ==
    /\ pc = "ready"
    /\ \E i \in 1..(Len(entries) - 1) : entries[i].stop = entries[i + 1].stop
    /\ LET ls == lines(raw)
       IN  \E i \in 2..(Len(ls) - 1) :
               /\ trim(ls[i]) # <<>>
               /\ parse_line(ls[i]) = None
               /\ parse_line(ls[i - 1]) # None
               /\ parse_line(ls[i + 1]) # None

\* C3: format_store followed by parse gives back the entries that parse
\* produced, entry for entry.
C3_RoundTrip ==
    pc = "ready" =>
        LET again == parse(format_store(entries))
        IN  ~again.panic /\ again.entries = entries

\* entries of two days, parsed from a text that is not the one format_store
\* writes
C3_Witness ==
    /\ pc = "ready"
    /\ Len(entries) >= 2
    /\ date(entries[1].stop) # date(entries[Len(entries)].stop)
    /\ raw # format_store(entries)

\* C4: on a sorted store with begin <= end, get_time_range does not panic and
\* returns exactly the entries with begin <= stop <= end, as the contiguous
\* run entries[first..last]; on the empty store the slice is empty.
C4_TimeRangeExact ==
    (view.op = "get_time_range" /\ Sorted(entries)
        /\ le(unwrap(view.res.begin), unwrap(view.res.end))) =>
        LET begin == unwrap(view.res.begin)
            end == unwrap(view.res.end)
            InRange(e) == le(begin, e.stop) /\ le(e.stop, end)
        IN  /\ ~view.res.panic
            /\ view.res.first <= view.res.last
            /\ view.res.slice = Filter(entries, InRange)
            /\ view.res.slice = SubSeq(entries, view.res.first + 1, view.res.last)
            /\ (entries = <<>> => view.res.slice = <<>>)

\* a range that leaves out an entry before it and an entry after it, and
\* whose begin and end are stops of entries it returns
C4_Witness ==
    /\ view.op = "get_time_range"
    /\ ~view.res.panic
    /\ view.res.first > 0
    /\ view.res.last < Len(entries)
    /\ Len(view.res.slice) >= 1
    /\ \E i \in 1..Len(view.res.slice) :
           view.res.slice[i].stop = unwrap(view.res.end)

\* C5: get_day(D) returns exactly the stored entries whose stop is on date D,
\* contiguous and in stored order, for every store that parse and add build.
C5_DayExact ==
    view.op = "get_day" =>
        LET OnDay(e) == date(e.stop) = unwrap(view.day)
        IN  /\ ~view.res.panic
            /\ view.res.slice = Filter(entries, OnDay)

\* the Monday of the week that holds date d
MondayOf(d) == DateOfDayNum(DayNum(d) - num_days_from_monday(d))

\* the Monday after the week that holds date d
NextMondayOf(d) == DateOfDayNum(DayNum(d) - num_days_from_monday(d) + 7)

Midnight(d) == DT(d.year, d.month, d.day, 0, 0, 0)

\* C6: a get_week(date) that returns gives exactly the entries with stop from
\* Monday 00:00 of the week of date up to, not including, Monday 00:00 of the
\* week after.
C6_WeekEndExcluded ==
    (view.op = "get_week" /\ ~view.res.panic) =>
        LET day == unwrap(view.day)
            InWeek(e) == le(Midnight(MondayOf(day)), e.stop)
                         /\ lt(e.stop, Midnight(NextMondayOf(day)))
        IN  view.res.slice = Filter(entries, InWeek)

\* C7: get_week(date) returns for every date, and its range is the span from
\* the Monday of the ISO week that holds date to the Monday after it, also
\* when that week is the last of a year or belongs to another year.
C7_WeekAcrossYears ==
    view.op = "get_week" =>
        LET day == unwrap(view.day)
        IN  /\ ~view.res.panic
            /\ view.res.begin = Some(Midnight(MondayOf(day)))
            /\ view.res.end = Some(Midnight(NextMondayOf(day)))

\* the sum of the durations of the counted entries at the positions K of counted
RECURSIVE SumDur(_, _)
SumDur(counted, K) ==
    IF K = {} THEN 0
    ELSE LET k == CHOOSE x \in K : TRUE
         IN  counted[k].duration + SumDur(counted, K \ {k})

\* the task text starts with the two characters "**"
HasMarker(task) == Len(task) >= 2 /\ task[1] = "*" /\ task[2] = "*"

\* C8: an entry of the slice gets a duration exactly when it is not the first
\* entry and its date is the date of the entry before it; the duration is
\* its stop minus the stop before it.
C8_CountedIffSameDate ==
    report # None =>
        LET r == unwrap(report)
            S == view.res.slice
        IN  \A i \in 1..Len(S) :
                /\ (\E k \in 1..Len(r.counted) : r.counted[k].index = i)
                       <=> (i > 1 /\ date(S[i].stop) = date(S[i - 1].stop))
                /\ \A k \in 1..Len(r.counted) :
                       r.counted[k].index = i =>
                           r.counted[k].duration
                               = signed_duration_since(S[i].stop, S[i - 1].stop)

\* C9: every counted duration is non-negative and goes to total_slack when
\* the task starts with "**", else to total_work: each total is the sum of
\* the durations of its own entries.
C9_WorkSlackSplit ==
    report # None =>
        LET r == unwrap(report)
            S == view.res.slice
            K == 1..Len(r.counted)
            Slack == {k \in K : HasMarker(S[r.counted[k].index].task)}
        IN  /\ \A k \in K : r.counted[k].duration >= 0
            /\ r.total_slack = SumDur(r.counted, Slack)
            /\ r.total_work = SumDur(r.counted, K \ Slack)

\* a slice with a counted slack interval and a counted work interval, both
\* longer than zero
C9_Witness ==
    /\ report # None
    /\ unwrap(report).total_slack > 0
    /\ unwrap(report).total_work > 0

\* C10: the breakdown names each task at most once, in the order of the
\* first counted entry of each task; the duration of a task is the sum of the
\* counted intervals of its entries; a task with no counted entry is absent.
C10_Breakdown ==
    report # None =>
        LET r == unwrap(report)
            S == view.res.slice
            A == r.activities
            K == 1..Len(r.counted)
            Task(k) == S[r.counted[k].index].task
            Of(name) == {k \in K : Task(k) = name}
            FirstOf(name) == CHOOSE k \in Of(name) : \A x \in Of(name) : k <= x
        IN  /\ \A i, j \in 1..Len(A) : i # j => A[i].name # A[j].name
            /\ \A i \in 1..Len(A) :
                   Of(A[i].name) # {} /\ A[i].duration = SumDur(r.counted, Of(A[i].name))
            /\ \A k \in K : \E i \in 1..Len(A) : A[i].name = Task(k)
            /\ \A i, j \in 1..Len(A) : i < j => FirstOf(A[i].name) < FirstOf(A[j].name)

\* a breakdown of two tasks, one of them counted twice, while the task of the
\* first entry of the slice is not in it
C10_Witness ==
    /\ report # None
    /\ LET r == unwrap(report)
           S == view.res.slice
       IN  /\ Len(r.activities) = 2
           /\ Len(r.counted) = 3
           /\ S[r.counted[1].index].task = S[r.counted[3].index].task
           /\ \A i \in 1..Len(r.activities) : r.activities[i].name # S[1].task
           /\ r.activities[1].duration > 0

\* C11: get_history returns each task of the slice exactly once, in the
\* order of first occurrence, and nothing that is not in the slice.
C11_HistoryDistinctInOrder ==
    report # None =>
        LET S == view.res.slice
            H == history
            FirstAt(t) == CHOOSE k \in 1..Len(S) :
                              S[k].task = t /\ \A x \in 1..(k - 1) : S[x].task # t
        IN  /\ \A i, j \in 1..Len(H) : i # j => H[i] # H[j]
            /\ {H[i] : i \in 1..Len(H)} = {S[k].task : k \in 1..Len(S)}
            /\ \A i, j \in 1..Len(H) : i < j => FirstAt(H[i]) < FirstAt(H[j])
            /\ (S = <<>> => H = <<>>)

\* a slice whose first task comes back after another task: the history has
\* two tasks for three entries or more
C11_Witness ==
    /\ report # None
    /\ Len(view.res.slice) >= 3
    /\ view.res.slice[1].task = view.res.slice[3].task
    /\ view.res.slice[1].task # view.res.slice[2].task
    /\ Len(history) = 2

\* a line that is empty after trimming
Blank(l) == trim(l) = <<>>

\* a line with no ": " separator, or whose time portion does not parse
Malformed(l) ==
    /\ ~Blank(l)
    /\ LET sp == split_once(trim(l), <<":", " ">>)
       IN  sp = None \/ parse_from_str(unwrap(sp)[1], TIME_FMT) = None

Skipped(l) == Blank(l) \/ Malformed(l)

KeptLine(l) == ~Skipped(l)

\* C12: blank and malformed lines never abort parse and never give an entry:
\* parse of a text does what parse of the text without those lines does.
C12_SkippedLinesIgnored ==
    pc # "new" =>
        LET ls == lines(raw)
            kept == SelectSeq(ls, KeptLine)
            clean == parse(Join(kept, TRUE))
        IN  /\ (pc = "panic") <=> clean.panic
            /\ pc = "ready" => (entries = clean.entries /\ Len(entries) = Len(kept))
            /\ \A i \in 1..Len(ls) : Skipped(ls[i]) => parse_line(ls[i]) = None

\* parse went past a malformed line and a blank line and accepted the line
\* after them
C12_Witness ==
    /\ pc = "ready"
    /\ LET ls == lines(raw)
       IN  /\ Len(ls) = 3
           /\ Malformed(ls[1])
           /\ Blank(ls[2])
           /\ Len(entries) = 1

\* C13: format_store writes one line per entry in stored order, one blank
\* line between two consecutive entries exactly when their dates differ,
\* none before the first entry, and the empty text for the empty store.
C13_BlankLineAtDayChange ==
    pc = "ready" =>
        LET out == format_store(entries)
            ls == lines(out)
            n == Len(entries)
            Breaks(i) == Cardinality({j \in 2..i :
                             date(entries[j].stop) # date(entries[j - 1].stop)})
        IN  /\ (n = 0 => out = <<>>)
            /\ (n > 0 => out[1] # "\n" /\ out[Len(out)] = "\n")
            /\ Len(ls) = n + Breaks(n)
            /\ \A i \in 1..n : ls[i + Breaks(i)] = display(entries[i])
            /\ \A p \in 1..Len(ls) :
                   (\A i \in 1..n : p # i + Breaks(i)) => ls[p] = <<>>

\* the saved text of a store with two entries on one day followed by an
\* entry on another day
C13_Witness ==
    /\ pc = "ready"
    /\ raw = format_store(entries)
    /\ Len(entries) >= 3
    /\ date(entries[1].stop) = date(entries[2].stop)
    /\ date(entries[2].stop) # date(entries[3].stop)
    /\ entries[Len(entries)].task \in AddTasks

\* C14: add makes the order test of parse: an entry whose stop is earlier
\* than the last stored stop never gets into the store, nor into the file
\* that save writes.
C14_AddKeepsOrder ==
    pc = "ready" => (Sorted(entries) /\ ~parse(raw).panic)

\* C15: every entry of the store, parsed or added, has a stop with zero
\* seconds.
C15_MinuteResolution ==
    pc = "ready" => \A i \in 1..Len(entries) : entries[i].stop.second = 0

\* the inputs Command::parse recognises: the empty one and the five commands
Recognised ==
    {<<>>, <<":", "q">>, <<":", "h">>, <<":", "e">>, <<":", "w">>, <<":", "d">>}

\* what a turn of the loop did with the input it read
HandledAsClaimed ==
    LET input == unwrap(ui'.input)
        cmd == unwrap(ui'.cmd)
    IN  ui'.cmd # None =>
            /\ (starts_with(input, <<":">>) /\ input \notin Recognised) =>
                   /\ cmd.kind = "Error"
                   /\ entries' = entries
                   /\ raw' = raw
            /\ (input # <<>> /\ ~starts_with(input, <<":">>)) =>
                   cmd = Command("Add", "-", input)

\* C16: in the interactive loop an input that starts with ":" and is not a
\* recognised command becomes Command::Error, never Command::Add, and the
\* turn that handles it changes neither the entries nor the saved file; a
\* non-empty input that does not start with ":" becomes Command::Add with
\* the input as its text.
C16_UnknownCommandIsError == [][HandledAsClaimed]_vars

\* an unknown command was handled on a store whose file is not what save
\* would write, so a save would have shown
C16_Witness ==
    /\ pc = "ready"
    /\ ui.cmd # None
    /\ unwrap(ui.cmd).kind = "Error"
    /\ unwrap(ui.input) = <<":", "e", "2">>
    /\ entries # <<>>
    /\ raw # format_store(entries)

\* C17: once add and save have run, parsing the saved text gives the entries
\* of the store: same length, same stops, same tasks.
C17_SaveReload ==
    (pc = "ready" /\ raw = format_store(entries)) =>
        parse(raw) = [panic |-> FALSE, entries |-> entries]

\* the sum of the durations of the activities at the positions I of the breakdown
RECURSIVE SumAct(_, _)
SumAct(A, I) ==
    IF I = {} THEN 0
    ELSE LET i == CHOOSE x \in I : TRUE
         IN  A[i].duration + SumAct(A, I \ {i})

\* C18: in the result of new_from_entries, total_work + total_slack is the
\* sum of the durations of all activities of the breakdown, total_slack is
\* the sum over the activities whose name starts with "**" and total_work
\* the sum over the others.
C18_Conservation ==
    report # None =>
        LET r == unwrap(report)
            A == r.activities
            I == 1..Len(A)
            Slack == {i \in I : HasMarker(A[i].name)}
        IN  /\ r.total_work + r.total_slack = SumAct(A, I)
            /\ r.total_slack = SumAct(A, Slack)
            /\ r.total_work = SumAct(A, I \ Slack)

\* a breakdown with a slack activity and a work activity, one of which sums
\* the intervals of two entries
C18_Witness ==
    /\ report # None
    /\ LET r == unwrap(report)
       IN  /\ Len(r.activities) = 2
           /\ Len(r.counted) = 3
           /\ \E i, j \in 1..2 :
                  /\ HasMarker(r.activities[i].name)
                  /\ ~HasMarker(r.activities[j].name)
                  /\ r.activities[i].duration > 0
                  /\ r.activities[j].duration > 0

====
